---- MODULE Spec2Model ----
(***************************************************************************)
(* Model of src/service/ampdoc-impl.js: the AmpDocService (the registry    *)
(* that maps a node to its owning AmpDoc) and the AmpDocSingle /           *)
(* AmpDocShadow / AmpDocFie document variants with their body and ready    *)
(* latches.                                                                *)
(*                                                                         *)
(* The DOM is a fixed hierarchy of windows, documents, shadow roots and    *)
(* elements.  The service state, the __AMPDOC markers on root nodes, the   *)
(* ampdoc_ back-references on custom elements and the document instances   *)
(* are the variables.  A document's url_ is stored verbatim at             *)
(* construction and read by no modelled operation; it is left out.         *)
(***************************************************************************)
EXTENDS Integers, Sequences, FiniteSets, TLC

\* ------------------------------------------------------------------------
\* Bounds
\* ------------------------------------------------------------------------
\* How many embedded documents (shadow or fie) are installed in one run.
MaxDocs == 2

\* ------------------------------------------------------------------------
\* The DOM hierarchy
\* ------------------------------------------------------------------------
\* "No object": null / undefined in the source.
Null == 0
NoNode == "none"

\* Windows.  "top" is the window the service was constructed with.  "fie1"
\* is embedded by iframe1 in the top document, "fie2" by iframe2 that sits
\* inside shadow root sr1, "fie3" by iframe3 inside fie1's document.
\* "orphan" is a window that has no frame element and is its own top.
\* Shadow root sr1 is hosted in the top document, sr2 is nested inside sr1,
\* sr3 is hosted inside fie1's document.
Windows == {"top", "fie1", "fie2", "fie3", "orphan"}

Documents == {"doc0", "doc1", "doc2", "doc3", "docX"}
ShadowRoots == {"sr1", "sr2", "sr3"}
Elements == {"el0", "host1", "iframe1", "el1", "host2", "iframe2", "el2",
             "elf1", "iframe3", "host3", "el3", "elf2", "elf3", "elX",
             "det"}
Nodes == Documents \cup ShadowRoots \cup Elements
RootNodes == Documents \cup ShadowRoots

\* Elements that are custom elements: the only nodes with an ampdoc_ field.
CustomElements == {"host1", "host2", "iframe3", "elf1"}

\* Elements a shadow document can be given as its body.
BodyEls == {"el1", "el2"}

\* Node.nodeType: 9 is DOCUMENT, 11 a document fragment (ShadowRoot), 1 an
\* element.
nodeType(n) ==
  IF n \in Documents THEN 9 ELSE IF n \in ShadowRoots THEN 11 ELSE 1

\* Node.parentNode; none for documents, shadow roots and the detached "det".
parentNode(n) ==
  CASE n \in {"el0", "host1", "iframe1"} -> "doc0"
    [] n \in {"el1", "host2", "iframe2"} -> "sr1"
    [] n = "el2" -> "sr2"
    [] n \in {"elf1", "iframe3", "host3"} -> "doc1"
    [] n = "el3" -> "sr3"
    [] n = "elf2" -> "doc2"
    [] n = "elf3" -> "doc3"
    [] n = "elX" -> "docX"
    [] OTHER -> NoNode

\* ShadowRoot.host; undefined on every other node.
host(n) ==
  CASE n = "sr1" -> "host1"
    [] n = "sr2" -> "host2"
    [] n = "sr3" -> "host3"
    [] OTHER -> NoNode

\* Window.document
document(w) ==
  CASE w = "top" -> "doc0"
    [] w = "fie1" -> "doc1"
    [] w = "fie2" -> "doc2"
    [] w = "fie3" -> "doc3"
    [] OTHER -> "docX"

\* Window.frameElement; null for the top window and for the orphan.
frameElement(w) ==
  CASE w = "fie1" -> "iframe1"
    [] w = "fie2" -> "iframe2"
    [] w = "fie3" -> "iframe3"
    [] OTHER -> NoNode

\* Window.parent (the window itself when it has none).
parentWin(w) ==
  CASE w = "fie1" -> "top"
    [] w = "fie2" -> "top"
    [] w = "fie3" -> "fie1"
    [] OTHER -> w

\* Is the node connected to a document (Node.isConnected)?
RECURSIVE isConnected(_)
isConnected(n) ==
  IF n \in Documents THEN TRUE
  ELSE IF n \in ShadowRoots THEN isConnected(host(n))
  ELSE IF parentNode(n) = NoNode THEN FALSE
  ELSE isConnected(parentNode(n))

\* (node.ownerDocument || node).defaultView
RECURSIVE defaultView(_)
defaultView(n) ==
  CASE n = "doc0" -> "top"
    [] n = "doc1" -> "fie1"
    [] n = "doc2" -> "fie2"
    [] n = "doc3" -> "fie3"
    [] n = "docX" -> "orphan"
    [] n \in ShadowRoots -> defaultView(host(n))
    [] n = "det" -> "top"
    [] OTHER -> defaultView(parentNode(n))

\* ------------------------------------------------------------------------
\* External helpers of the traversal
\* ------------------------------------------------------------------------
\* getTopWindow: climb Window.parent until it stops changing.
RECURSIVE getTopWindow(_)
getTopWindow(w) == IF parentWin(w) = w THEN w ELSE getTopWindow(parentWin(w))

\* getParentWindowFrameElement(node, topWin): the frame element of the
\* node's window when that window is embedded under topWin, else null.
getParentWindowFrameElement(node, topWin) ==
  LET childWin == defaultView(node) IN
  IF childWin # topWin /\ getTopWindow(childWin) = topWin
    THEN frameElement(childWin)
    ELSE NoNode

\* rootNodeFor(node): the node itself when it is a root, else its nearest
\* enclosing root, else null (a detached node).  A root is "either a
\* document, or a shadow document" (comment at the call in
\* getAmpDocIfAvailable).
RECURSIVE rootNodeFor(_)
rootNodeFor(n) ==
  IF n \in RootNodes THEN n
  ELSE IF parentNode(n) = NoNode THEN NoNode
  ELSE rootNodeFor(parentNode(n))

\* getShadowRootNode(node): the nearest shadow root at or above the node
\* inside its own tree, else null.
RECURSIVE getShadowRootNode(_)
getShadowRootNode(n) ==
  IF n \in ShadowRoots THEN n
  ELSE IF parentNode(n) = NoNode THEN NoNode
  ELSE getShadowRootNode(parentNode(n))

\* ------------------------------------------------------------------------
\* State
\* ------------------------------------------------------------------------
VARIABLES
  singleDoc_,             \* AmpDocService.singleDoc_: a document or Null
  ampdocFieExperimentOn_, \* AmpDocService.ampdocFieExperimentOn_
  mightHaveShadowRoots_,  \* AmpDocService.mightHaveShadowRoots_
  ampdocProp,             \* root node -> its __AMPDOC marker, or Null
  ampdoc_,                \* custom element -> its ampdoc_ field, or Null
  docs,                   \* the AmpDoc instances, in order of construction
  thrown                  \* message of the error the last call threw, or ""

vars == <<singleDoc_, ampdocFieExperimentOn_, mightHaveShadowRoots_,
          ampdocProp, ampdoc_, docs, thrown>>

\* The window the service was constructed with (AmpDocService.win).
win == "top"

\* Error messages.
NoError == ""
ErrShadowDup == "The shadow root already contains ampdoc"
ErrFieDup == "The fie already contains ampdoc"
ErrAssert == "Assertion failed"
ErrDetached == "The node must be attached to request ampdoc."
ErrNoAmpDoc == "No ampdoc found for"
ErrDupBody == "Duplicate body"
ErrDupReady == "Duplicate ready state"

\* A Deferred's promise: pending, or resolved with a value.  "calls" counts
\* the invocations of its resolve function.
NoPromise == [id |-> 0, state |-> "none", value |-> NoNode, calls |-> 0]
NewDeferred(k) ==
  [id |-> k, state |-> "pending", value |-> NoNode, calls |-> 0]

\* Deferred.resolve(value): settles a pending promise; a settled promise
\* keeps its value.
Resolve(p, v) ==
  [p EXCEPT !.state = "resolved",
            !.value = IF p.state = "pending" THEN v ELSE p.value,
            !.calls = p.calls + 1]

\* new AmpDocSingle(win): no parent, root node is win.document.  Its body
\* and ready promises come from the document-ready helpers, not from the
\* instance.
AmpDocSingle(w) ==
  [kind |-> "single", win |-> w, root |-> document(w), parent_ |-> Null,
   body_ |-> NoNode, bodyPromise_ |-> NoPromise, bodyResolver_ |-> FALSE,
   ready_ |-> FALSE, readyPromise_ |-> NoPromise, readyResolver_ |-> FALSE]

\* new AmpDocShadow(win, url, shadowRoot); id is the instance's index.
AmpDocShadow(w, shadowRoot, id) ==
  [kind |-> "shadow", win |-> w, root |-> shadowRoot, parent_ |-> Null,
   body_ |-> NoNode, bodyPromise_ |-> NewDeferred(2 * id - 1),
   bodyResolver_ |-> TRUE,
   ready_ |-> FALSE, readyPromise_ |-> NewDeferred(2 * id),
   readyResolver_ |-> TRUE]

\* new AmpDocFie(win, url, parent); its body promise comes from the child
\* window's document, not from the instance.
AmpDocFie(w, parent, id) ==
  [kind |-> "fie", win |-> w, root |-> document(w), parent_ |-> parent,
   body_ |-> NoNode, bodyPromise_ |-> NoPromise, bodyResolver_ |-> FALSE,
   ready_ |-> FALSE, readyPromise_ |-> NewDeferred(2 * id),
   readyResolver_ |-> TRUE]

DocIds == 1..Len(docs)

\* node.ampdoc_ : only custom elements have the field.
ampdocOf(n) == IF n \in CustomElements THEN ampdoc_[n] ELSE Null

\* rootNode[AMPDOC_PROP]
markerOf(r) == IF r \in RootNodes THEN ampdocProp[r] ELSE Null

\* ------------------------------------------------------------------------
\* AmpDocService
\* ------------------------------------------------------------------------
\* isSingleDoc answered from the shadow-roots flag instead of singleDoc_.
isSingleDocFromFlag == ~mightHaveShadowRoots_

\* isSingleDoc()
isSingleDoc == singleDoc_ # Null

\* getSingleDoc(): devAssert(this.singleDoc_)
getSingleDoc ==
  IF singleDoc_ # Null THEN [err |-> NoError, doc |-> singleDoc_]
  ELSE [err |-> ErrAssert, doc |-> Null]

\* The ampdoc-fie loop with the frame boundary crossed before the root's
\* marker is read.
RECURSIVE getAmpDocIfAvailableFieFrameFirst(_)
getAmpDocIfAvailableFieFrameFirst(n) ==
  IF n = NoNode THEN Null
  ELSE IF ampdocOf(n) # Null THEN ampdocOf(n)
  ELSE LET rootNode == rootNodeFor(n)
           frameEl == getParentWindowFrameElement(n, win) IN
    IF rootNode = NoNode THEN Null
    ELSE IF frameEl # NoNode THEN getAmpDocIfAvailableFieFrameFirst(frameEl)
    ELSE IF markerOf(rootNode) # Null THEN markerOf(rootNode)
    ELSE getAmpDocIfAvailableFieFrameFirst(host(rootNode))

\* The ampdoc-fie loop with the root's marker read before the node's
\* ampdoc_ back-reference.
RECURSIVE getAmpDocIfAvailableFieMarkerFirst(_)
getAmpDocIfAvailableFieMarkerFirst(n) ==
  IF n = NoNode THEN Null
  ELSE LET rootNode == rootNodeFor(n) IN
    IF rootNode # NoNode /\ markerOf(rootNode) # Null
      THEN markerOf(rootNode)
    ELSE IF ampdocOf(n) # Null THEN ampdocOf(n)
    ELSE IF rootNode = NoNode THEN Null
    ELSE IF host(rootNode) # NoNode
      THEN getAmpDocIfAvailableFieMarkerFirst(host(rootNode))
      ELSE getAmpDocIfAvailableFieMarkerFirst(
             getParentWindowFrameElement(rootNode, win))

\* getAmpDocIfAvailable, ampdoc-fie branch: the while loop from node n.
RECURSIVE getAmpDocIfAvailableFie(_)
getAmpDocIfAvailableFie(n) ==
  IF n = NoNode THEN Null
  ELSE IF ampdocOf(n) # Null THEN ampdocOf(n)
  ELSE LET rootNode == rootNodeFor(n) IN
    IF rootNode = NoNode THEN Null
    ELSE IF markerOf(rootNode) # Null THEN markerOf(rootNode)
    ELSE IF host(rootNode) # NoNode
      THEN getAmpDocIfAvailableFie(host(rootNode))
      ELSE getAmpDocIfAvailableFie(getParentWindowFrameElement(rootNode, win))

\* The legacy loop without the fallback to singleDoc_ after the loop.
RECURSIVE getAmpDocIfAvailableLegacyNoFallback(_)
getAmpDocIfAvailableLegacyNoFallback(n) ==
  IF n = NoNode THEN Null
  ELSE IF ampdocOf(n) # Null THEN ampdocOf(n)
  ELSE LET frameEl == getParentWindowFrameElement(n, win) IN
    IF frameEl # NoNode THEN getAmpDocIfAvailableLegacyNoFallback(frameEl)
    ELSE IF ~mightHaveShadowRoots_ THEN Null
    ELSE LET shadowRoot == IF nodeType(n) = 9 THEN n
                           ELSE getShadowRootNode(n) IN
      IF shadowRoot = NoNode THEN Null
      ELSE IF markerOf(shadowRoot) # Null THEN markerOf(shadowRoot)
      ELSE getAmpDocIfAvailableLegacyNoFallback(host(shadowRoot))

\* getAmpDocIfAvailable, legacy branch: the while loop from node n, then
\* the fallback to singleDoc_.
RECURSIVE getAmpDocIfAvailableLegacy(_)
getAmpDocIfAvailableLegacy(n) ==
  IF n = NoNode THEN singleDoc_
  ELSE IF ampdocOf(n) # Null THEN ampdocOf(n)
  ELSE LET frameEl == getParentWindowFrameElement(n, win) IN
    IF frameEl # NoNode THEN getAmpDocIfAvailableLegacy(frameEl)
    ELSE IF ~mightHaveShadowRoots_ THEN singleDoc_
    ELSE LET shadowRoot == IF nodeType(n) = 9 THEN n
                           ELSE getShadowRootNode(n) IN
      IF shadowRoot = NoNode THEN singleDoc_
      ELSE IF markerOf(shadowRoot) # Null THEN markerOf(shadowRoot)
      ELSE getAmpDocIfAvailableLegacy(host(shadowRoot))

\* One iteration of the ampdoc-fie loop at node n: either the loop is left
\* with a result (return, or break and return null), or it goes on at next.
stepFie(n) ==
  IF ampdocOf(n) # Null
    THEN [done |-> TRUE, val |-> ampdocOf(n), next |-> NoNode]
  ELSE LET rootNode == rootNodeFor(n) IN
    IF rootNode = NoNode
      THEN [done |-> TRUE, val |-> Null, next |-> NoNode]
    ELSE IF markerOf(rootNode) # Null
      THEN [done |-> TRUE, val |-> markerOf(rootNode), next |-> NoNode]
    ELSE IF host(rootNode) # NoNode
      THEN [done |-> FALSE, val |-> Null, next |-> host(rootNode)]
      ELSE [done |-> FALSE, val |-> Null,
            next |-> getParentWindowFrameElement(rootNode, win)]

\* One iteration of the legacy loop that goes on at the shadow root itself
\* instead of its host.
stepLegacyStaysAtRoot(n) ==
  IF ampdocOf(n) # Null
    THEN [done |-> TRUE, val |-> ampdocOf(n), next |-> NoNode]
  ELSE LET frameEl == getParentWindowFrameElement(n, win) IN
    IF frameEl # NoNode
      THEN [done |-> FALSE, val |-> Null, next |-> frameEl]
    ELSE IF ~mightHaveShadowRoots_
      THEN [done |-> TRUE, val |-> singleDoc_, next |-> NoNode]
    ELSE LET shadowRoot == IF nodeType(n) = 9 THEN n
                           ELSE getShadowRootNode(n) IN
      IF shadowRoot = NoNode
        THEN [done |-> TRUE, val |-> singleDoc_, next |-> NoNode]
      ELSE IF markerOf(shadowRoot) # Null
        THEN [done |-> TRUE, val |-> markerOf(shadowRoot), next |-> NoNode]
      ELSE [done |-> FALSE, val |-> Null,
            next |-> IF shadowRoot \in ShadowRoots THEN shadowRoot
                     ELSE NoNode]

\* One iteration of the legacy loop at node n: either the loop is left with
\* a result (return, or break and return singleDoc_), or it goes on at next.
stepLegacy(n) ==
  IF ampdocOf(n) # Null
    THEN [done |-> TRUE, val |-> ampdocOf(n), next |-> NoNode]
  ELSE LET frameEl == getParentWindowFrameElement(n, win) IN
    IF frameEl # NoNode
      THEN [done |-> FALSE, val |-> Null, next |-> frameEl]
    ELSE IF ~mightHaveShadowRoots_
      THEN [done |-> TRUE, val |-> singleDoc_, next |-> NoNode]
    ELSE LET shadowRoot == IF nodeType(n) = 9 THEN n
                           ELSE getShadowRootNode(n) IN
      IF shadowRoot = NoNode
        THEN [done |-> TRUE, val |-> singleDoc_, next |-> NoNode]
      ELSE IF markerOf(shadowRoot) # Null
        THEN [done |-> TRUE, val |-> markerOf(shadowRoot), next |-> NoNode]
      ELSE [done |-> FALSE, val |-> Null, next |-> host(shadowRoot)]

\* getAmpDocIfAvailable(node)
getAmpDocIfAvailable(node) ==
  IF ampdocFieExperimentOn_ THEN getAmpDocIfAvailableFie(node)
  ELSE getAmpDocIfAvailableLegacy(node)

\* getAmpDoc that hands out whatever the lookup found, without the throw.
getAmpDocNoThrow(node) ==
  IF ~isConnected(node) THEN [err |-> ErrDetached, doc |-> Null]
  ELSE [err |-> NoError, doc |-> getAmpDocIfAvailable(node)]

\* getAmpDoc(node): the attached-node assertion, then the lookup; throws
\* when no ampdoc is found.
getAmpDoc(node) ==
  IF ~isConnected(node) THEN [err |-> ErrDetached, doc |-> Null]
  ELSE LET ampdoc == getAmpDocIfAvailable(node) IN
    IF ampdoc = Null THEN [err |-> ErrNoAmpDoc, doc |-> Null]
    ELSE [err |-> NoError, doc |-> ampdoc]

\* Number of embedded documents constructed so far.
NumEmbedded == Len(docs) - (IF singleDoc_ # Null THEN 1 ELSE 0)

\* new AmpDocService(win, isSingleDoc), with the ampdoc-fie experiment
\* either on or off.
Init ==
  \E single \in BOOLEAN, fie \in BOOLEAN :
    /\ singleDoc_ = IF single THEN 1 ELSE Null
    /\ docs = IF single THEN <<AmpDocSingle(win)>> ELSE <<>>
    /\ ampdocProp = [r \in RootNodes |->
                       IF single /\ r = document(win) THEN 1 ELSE Null]
    /\ ampdocFieExperimentOn_ = fie
    /\ mightHaveShadowRoots_ = ~single
    /\ ampdoc_ = [e \in CustomElements |-> Null]
    /\ thrown = NoError

\* installShadowDoc without the assertion that the root is unmarked.
installShadowDocOverwrite(shadowRoot) ==
  /\ mightHaveShadowRoots_' = TRUE
  /\ NumEmbedded < MaxDocs
  /\ docs' = Append(docs, AmpDocShadow(win, shadowRoot, Len(docs) + 1))
  /\ ampdocProp' = [ampdocProp EXCEPT ![shadowRoot] = Len(docs) + 1]
  /\ thrown' = NoError
  /\ UNCHANGED <<singleDoc_, ampdocFieExperimentOn_, ampdoc_>>

\* installShadowDoc that does not raise the shadow-roots flag.
installShadowDocNoFlag(shadowRoot) ==
  /\ IF ampdocProp[shadowRoot] # Null
       THEN /\ thrown' = ErrShadowDup
            /\ UNCHANGED <<ampdocProp, docs>>
       ELSE /\ NumEmbedded < MaxDocs
            /\ docs' = Append(docs, AmpDocShadow(win, shadowRoot,
                                                 Len(docs) + 1))
            /\ ampdocProp' = [ampdocProp EXCEPT ![shadowRoot] = Len(docs) + 1]
            /\ thrown' = NoError
  /\ UNCHANGED <<singleDoc_, ampdocFieExperimentOn_, mightHaveShadowRoots_,
                 ampdoc_>>

\* installShadowDoc(url, shadowRoot)
installShadowDoc(shadowRoot) ==
  /\ mightHaveShadowRoots_' = TRUE
  /\ IF ampdocProp[shadowRoot] # Null
       THEN /\ thrown' = ErrShadowDup
            /\ UNCHANGED <<ampdocProp, docs>>
       ELSE /\ NumEmbedded < MaxDocs
            /\ docs' = Append(docs, AmpDocShadow(win, shadowRoot,
                                                 Len(docs) + 1))
            /\ ampdocProp' = [ampdocProp EXCEPT ![shadowRoot] = Len(docs) + 1]
            /\ thrown' = NoError
  /\ UNCHANGED <<singleDoc_, ampdocFieExperimentOn_, ampdoc_>>

\* installFieDoc that resolves the parent with getAmpDocIfAvailable, which
\* does not throw, instead of getAmpDoc.
installFieDocLenientParent(childWin) ==
  LET doc == document(childWin)
      frameEl == frameElement(childWin)
  IN
  /\ IF ampdocProp[doc] # Null
       THEN /\ thrown' = ErrFieDup
            /\ UNCHANGED <<ampdocProp, docs>>
       ELSE IF frameEl = NoNode
       THEN /\ thrown' = ErrAssert
            /\ UNCHANGED <<ampdocProp, docs>>
       ELSE /\ NumEmbedded < MaxDocs
            /\ docs' = Append(docs,
                 AmpDocFie(childWin, getAmpDocIfAvailable(frameEl),
                           Len(docs) + 1))
            /\ ampdocProp' = [ampdocProp EXCEPT ![doc] = Len(docs) + 1]
            /\ thrown' = NoError
  /\ UNCHANGED <<singleDoc_, ampdocFieExperimentOn_, mightHaveShadowRoots_,
                 ampdoc_>>

\* installFieDoc that takes the single doc as the parent whenever there is
\* one, instead of the owner of the frame element.
installFieDocSingleParent(childWin) ==
  LET doc == document(childWin)
      frameEl == frameElement(childWin)
      parent == getAmpDoc(frameEl)
  IN
  /\ IF ampdocProp[doc] # Null
       THEN /\ thrown' = ErrFieDup
            /\ UNCHANGED <<ampdocProp, docs>>
       ELSE IF frameEl = NoNode
       THEN /\ thrown' = ErrAssert
            /\ UNCHANGED <<ampdocProp, docs>>
       ELSE IF parent.err # NoError
       THEN /\ thrown' = parent.err
            /\ UNCHANGED <<ampdocProp, docs>>
       ELSE /\ NumEmbedded < MaxDocs
            /\ docs' = Append(docs,
                 AmpDocFie(childWin,
                           IF singleDoc_ # Null THEN singleDoc_
                           ELSE parent.doc,
                           Len(docs) + 1))
            /\ ampdocProp' = [ampdocProp EXCEPT ![doc] = Len(docs) + 1]
            /\ thrown' = NoError
  /\ UNCHANGED <<singleDoc_, ampdocFieExperimentOn_, mightHaveShadowRoots_,
                 ampdoc_>>

\* installFieDoc that resolves the parent from the child document after the
\* marker is written, which yields the new document itself.
installFieDocSelfParent(childWin) ==
  LET doc == document(childWin)
      frameEl == frameElement(childWin)
      parent == getAmpDoc(frameEl)
  IN
  /\ IF ampdocProp[doc] # Null
       THEN /\ thrown' = ErrFieDup
            /\ UNCHANGED <<ampdocProp, docs>>
       ELSE IF frameEl = NoNode
       THEN /\ thrown' = ErrAssert
            /\ UNCHANGED <<ampdocProp, docs>>
       ELSE IF parent.err # NoError
       THEN /\ thrown' = parent.err
            /\ UNCHANGED <<ampdocProp, docs>>
       ELSE /\ NumEmbedded < MaxDocs
            /\ docs' = Append(docs, AmpDocFie(childWin, Len(docs) + 1,
                                              Len(docs) + 1))
            /\ ampdocProp' = [ampdocProp EXCEPT ![doc] = Len(docs) + 1]
            /\ thrown' = NoError
  /\ UNCHANGED <<singleDoc_, ampdocFieExperimentOn_, mightHaveShadowRoots_,
                 ampdoc_>>

\* installFieDoc(url, childWin, opt_options)
installFieDoc(childWin) ==
  LET doc == document(childWin)
      frameEl == frameElement(childWin)
      parent == getAmpDoc(frameEl)
  IN
  /\ IF ampdocProp[doc] # Null
       THEN /\ thrown' = ErrFieDup
            /\ UNCHANGED <<ampdocProp, docs>>
       ELSE IF frameEl = NoNode
       THEN /\ thrown' = ErrAssert
            /\ UNCHANGED <<ampdocProp, docs>>
       ELSE IF parent.err # NoError
       THEN /\ thrown' = parent.err
            /\ UNCHANGED <<ampdocProp, docs>>
       ELSE /\ NumEmbedded < MaxDocs
            /\ docs' = Append(docs, AmpDocFie(childWin, parent.doc,
                                              Len(docs) + 1))
            /\ ampdocProp' = [ampdocProp EXCEPT ![doc] = Len(docs) + 1]
            /\ thrown' = NoError
  /\ UNCHANGED <<singleDoc_, ampdocFieExperimentOn_, mightHaveShadowRoots_,
                 ampdoc_>>

\* updateFieModeForTesting(ampdocService, value)
updateFieModeForTesting(value) ==
  /\ ampdocFieExperimentOn_' = value
  /\ thrown' = NoError
  /\ UNCHANGED <<singleDoc_, mightHaveShadowRoots_, ampdocProp, ampdoc_,
                 docs>>

\* A custom element caches the ampdoc it belongs to in its ampdoc_ field the
\* first time it asks the service for it.
cacheAmpDoc(el) ==
  LET r == getAmpDoc(el) IN
  /\ ampdoc_[el] = Null
  /\ thrown' = r.err
  /\ ampdoc_' = IF r.err = NoError THEN [ampdoc_ EXCEPT ![el] = r.doc]
                ELSE ampdoc_
  /\ UNCHANGED <<singleDoc_, ampdocFieExperimentOn_, mightHaveShadowRoots_,
                 ampdocProp, docs>>

\* ------------------------------------------------------------------------
\* AmpDocShadow
\* ------------------------------------------------------------------------
\* isBodyAvailable()
isBodyAvailable(d) == docs[d].body_ # NoNode

\* getBody(): dev().assertElement(this.body_, 'body not available')
getBody(d) == docs[d].body_

\* waitForBodyOpen()
waitForBodyOpen(d) == docs[d].bodyPromise_

\* isReady()
isReady(d) == docs[d].ready_

\* whenReady()
whenReady(d) == docs[d].readyPromise_

\* setBody without the duplicate-body assertion.
setBodyNoAssert(d, body) ==
  /\ docs[d].kind = "shadow"
  /\ docs' = [docs EXCEPT
       ![d].body_ = body,
       ![d].bodyPromise_ = Resolve(docs[d].bodyPromise_, body),
       ![d].bodyResolver_ = FALSE]
  /\ thrown' = NoError
  /\ UNCHANGED <<singleDoc_, ampdocFieExperimentOn_, mightHaveShadowRoots_,
                 ampdocProp, ampdoc_>>

\* AmpDocShadow.setBody(body)
setBody(d, body) ==
  /\ docs[d].kind = "shadow"
  /\ IF docs[d].body_ # NoNode
       THEN /\ thrown' = ErrDupBody
            /\ UNCHANGED docs
       ELSE /\ docs' = [docs EXCEPT
                 ![d].body_ = body,
                 ![d].bodyPromise_ = Resolve(docs[d].bodyPromise_, body),
                 ![d].bodyResolver_ = FALSE]
            /\ thrown' = NoError
  /\ UNCHANGED <<singleDoc_, ampdocFieExperimentOn_, mightHaveShadowRoots_,
                 ampdocProp, ampdoc_>>

\* AmpDocShadow.setReady that drops the body resolver instead of the ready
\* resolver after it has called the latter.
setReadyShadowDropsBodyResolver(d) ==
  /\ docs[d].kind = "shadow"
  /\ IF docs[d].ready_
       THEN /\ thrown' = ErrDupReady
            /\ UNCHANGED docs
       ELSE /\ docs' = [docs EXCEPT
                 ![d].ready_ = TRUE,
                 ![d].readyPromise_ = Resolve(docs[d].readyPromise_, NoNode),
                 ![d].bodyResolver_ = FALSE]
            /\ thrown' = NoError
  /\ UNCHANGED <<singleDoc_, ampdocFieExperimentOn_, mightHaveShadowRoots_,
                 ampdocProp, ampdoc_>>

\* AmpDocShadow.setReady()
setReadyShadow(d) ==
  /\ docs[d].kind = "shadow"
  /\ IF docs[d].ready_
       THEN /\ thrown' = ErrDupReady
            /\ UNCHANGED docs
       ELSE /\ docs' = [docs EXCEPT
                 ![d].ready_ = TRUE,
                 ![d].readyPromise_ = Resolve(docs[d].readyPromise_, NoNode),
                 ![d].readyResolver_ = FALSE]
            /\ thrown' = NoError
  /\ UNCHANGED <<singleDoc_, ampdocFieExperimentOn_, mightHaveShadowRoots_,
                 ampdocProp, ampdoc_>>

\* ------------------------------------------------------------------------
\* AmpDocFie
\* ------------------------------------------------------------------------
\* getParent(): null for AmpDocSingle and AmpDocShadow, parent_ for AmpDocFie
getParent(d) == IF docs[d].kind = "fie" THEN docs[d].parent_ ELSE Null

\* AmpDocFie.setReady that sets the flag and never calls the resolver.
setReadyFieNoResolve(d) ==
  /\ docs[d].kind = "fie"
  /\ IF docs[d].ready_
       THEN /\ thrown' = ErrDupReady
            /\ UNCHANGED docs
       ELSE /\ docs' = [docs EXCEPT ![d].ready_ = TRUE,
                                    ![d].readyResolver_ = FALSE]
            /\ thrown' = NoError
  /\ UNCHANGED <<singleDoc_, ampdocFieExperimentOn_, mightHaveShadowRoots_,
                 ampdocProp, ampdoc_>>

\* AmpDocFie.setReady()
setReadyFie(d) ==
  /\ docs[d].kind = "fie"
  /\ IF docs[d].ready_
       THEN /\ thrown' = ErrDupReady
            /\ UNCHANGED docs
       ELSE /\ docs' = [docs EXCEPT
                 ![d].ready_ = TRUE,
                 ![d].readyPromise_ = Resolve(docs[d].readyPromise_, NoNode),
                 ![d].readyResolver_ = FALSE]
            /\ thrown' = NoError
  /\ UNCHANGED <<singleDoc_, ampdocFieExperimentOn_, mightHaveShadowRoots_,
                 ampdocProp, ampdoc_>>

\* ------------------------------------------------------------------------
\* Specification
\* ------------------------------------------------------------------------
\* The operations of the service, with the custom elements that cache it.
NextService ==
  \/ \E sr \in ShadowRoots : installShadowDoc(sr)
  \/ \E w \in Windows : installFieDoc(w)
  \/ \E v \in BOOLEAN : updateFieModeForTesting(v)
  \/ \E el \in CustomElements : cacheAmpDoc(el)

\* The operations that create documents and drive their latches.
NextDocs ==
  \/ \E sr \in ShadowRoots : installShadowDoc(sr)
  \/ \E w \in Windows : installFieDoc(w)
  \/ \E d \in DocIds, b \in BodyEls : setBody(d, b)
  \/ \E d \in DocIds : setReadyShadow(d)
  \/ \E d \in DocIds : setReadyFie(d)

Next == NextService \/ NextDocs

\* Every operation.
Spec == Init /\ [][Next]_vars

\* The service alone: documents are installed and looked up, their latches
\* are left alone.
SpecService == Init /\ [][NextService]_vars

\* The documents alone: documents are installed and their latches driven.
SpecDocs == Init /\ [][NextDocs]_vars

\* ------------------------------------------------------------------------
\* Vocabulary of the properties
\* ------------------------------------------------------------------------
\* The nodes of a root's own tree: no shadow or frame boundary in between.
TreeOf(r) == {n \in Nodes : rootNodeFor(n) = r}

\* One step up the composed hierarchy: parent node, shadow host, or the
\* frame element that embeds the node's document.
stepUp(n) ==
  IF parentNode(n) # NoNode THEN parentNode(n)
  ELSE IF n \in ShadowRoots THEN host(n)
  ELSE IF n \in Documents THEN frameElement(defaultView(n))
  ELSE NoNode

\* The upward path from a node: every node from n to the top of the
\* hierarchy it hangs in.
RECURSIVE UpPath(_)
UpPath(n) == IF n = NoNode THEN {} ELSE {n} \cup UpPath(stepUp(n))

\* The upward path from n up to, and without, root r (r on the path).
RECURSIVE PathBelow(_, _)
PathBelow(n, r) ==
  IF n = NoNode \/ n = r THEN {} ELSE {n} \cup PathBelow(stepUp(n), r)

\* No marker and no back-reference anywhere along the upward path.
PathIsBare(n) ==
  \A m \in UpPath(n) : markerOf(m) = Null /\ ampdocOf(m) = Null

\* ------------------------------------------------------------------------
\* Properties
\* ------------------------------------------------------------------------
\* C1: in single-doc mode every node of the top document's own tree that
\* carries no back-reference resolves to the single doc, in the legacy and
\* in the ampdoc-fie traversal, whatever was installed elsewhere.
C1_MainDocNodesResolveToSingleDoc ==
  isSingleDoc =>
    \A n \in TreeOf(document(win)) :
      ampdocOf(n) = Null =>
        /\ getSingleDoc.err = NoError
        /\ getAmpDocIfAvailableFie(n) = getSingleDoc.doc
        /\ getAmpDocIfAvailableLegacy(n) = getSingleDoc.doc
        /\ getAmpDocIfAvailable(n) = getSingleDoc.doc

\* C1 witness: single-doc mode, two documents installed elsewhere, shadow
\* roots possible, and a plain element of the top document resolved.
C1_Witness ==
  /\ isSingleDoc
  /\ NumEmbedded = 2
  /\ mightHaveShadowRoots_
  /\ ampdocOf("host1") = Null
  /\ getAmpDocIfAvailable("host1") = singleDoc_

\* The fie documents whose host frame element sits in the top document's
\* own tree.
FieDocsHostedInTopDoc ==
  {d \in DocIds : /\ docs[d].kind = "fie"
                  /\ frameElement(docs[d].win) \in TreeOf(document(win))}

\* C2 as stated: a node of an installed fie document's own tree that carries
\* no back-reference resolves to that fie document in whichever traversal
\* mode the service is using.
C2_Original ==
  \A d \in FieDocsHostedInTopDoc :
    \A n \in TreeOf(docs[d].root) :
      ampdocOf(n) = Null => getAmpDocIfAvailable(n) = d

\* C2 amended: such a node resolves to the fie document in the ampdoc-fie
\* traversal; the legacy traversal crosses the frame boundary before it
\* reads any marker and returns the single doc.
C2_FieNodesResolveToFieDocInFieMode ==
  \A d \in FieDocsHostedInTopDoc :
    \A n \in TreeOf(docs[d].root) :
      ampdocOf(n) = Null =>
        /\ getAmpDocIfAvailableFie(n) = d
        /\ ampdocFieExperimentOn_ => getAmpDocIfAvailable(n) = d
        /\ getAmpDocIfAvailableLegacy(n) = singleDoc_
        /\ singleDoc_ # Null

\* C2 witness: fie1 installed, the ampdoc-fie traversal on, and an element of
\* fie1's document without back-reference resolved to the fie document.
C2_Witness ==
  /\ ampdocFieExperimentOn_
  /\ ampdocProp["doc1"] # Null
  /\ ampdocOf("elf1") = Null
  /\ getAmpDocIfAvailable("elf1") = ampdocProp["doc1"]
  /\ docs[ampdocProp["doc1"]].kind = "fie"

\* The nodes C3 speaks of for a marked shadow root sr: those below sr on the
\* upward path, without back-reference, with no marked root between them
\* and sr.
InsideShadowRoot(sr) ==
  {n \in Nodes : /\ sr \in UpPath(n)
                 /\ ampdocOf(n) = Null
                 /\ \A m \in PathBelow(n, sr) : markerOf(m) = Null}

\* C3 as stated: every such node resolves to the shadow document in
\* whichever traversal mode the service is using.
C3_Original ==
  \A sr \in ShadowRoots :
    ampdocProp[sr] # Null =>
      \A n \in InsideShadowRoot(sr) :
        getAmpDocIfAvailable(n) = ampdocProp[sr]

\* Those of the nodes inside sr with no back-reference on any shadow host or
\* frame element between them and sr either.
InsideShadowRootNoBackRef(sr) ==
  {n \in InsideShadowRoot(sr) :
     \A m \in PathBelow(n, sr) : ampdocOf(m) = Null}

\* C3 amended: every such node, with no back-reference on the hosts and
\* frame elements between it and the shadow root either, resolves to the
\* shadow document in the ampdoc-fie traversal, and in the legacy traversal
\* when the shadow root belongs to the service's own window; single-doc or
\* not.
C3_ShadowNodesResolveToShadowDoc ==
  \A sr \in ShadowRoots :
    ampdocProp[sr] # Null =>
      \A n \in InsideShadowRootNoBackRef(sr) :
        /\ docs[ampdocProp[sr]].kind = "shadow"
        /\ getAmpDocIfAvailableFie(n) = ampdocProp[sr]
        /\ defaultView(sr) = win =>
             getAmpDocIfAvailableLegacy(n) = ampdocProp[sr]

\* C3 witness: sr1 marked and the nested sr2 not; an element of sr2 and an
\* element of the frame document hosted in sr1 resolve to sr1's document in
\* legacy mode.
C3_Witness ==
  /\ ~ampdocFieExperimentOn_
  /\ ampdocProp["sr1"] # Null
  /\ {"el2", "elf2"} \subseteq InsideShadowRootNoBackRef("sr1")
  /\ getAmpDocIfAvailable("el2") = ampdocProp["sr1"]
  /\ getAmpDocIfAvailable("elf2") = ampdocProp["sr1"]

\* C4: when the upward path from a node carries no marker and no
\* back-reference, the ampdoc-fie traversal returns null and the legacy
\* traversal returns singleDoc_.
C4_BarePathNullVersusFallback ==
  \A n \in Nodes :
    PathIsBare(n) =>
      /\ getAmpDocIfAvailableFie(n) = Null
      /\ getAmpDocIfAvailableLegacy(n) = singleDoc_
      /\ getAmpDocIfAvailable(n) =
           (IF ampdocFieExperimentOn_ THEN Null ELSE singleDoc_)

\* C4 witness: single-doc mode with documents installed; a detached element
\* and an element of the orphan window have bare paths, the legacy traversal
\* answers the single doc for them and the ampdoc-fie traversal null.
C4_Witness ==
  /\ isSingleDoc
  /\ NumEmbedded >= 1
  /\ mightHaveShadowRoots_
  /\ PathIsBare("det") /\ PathIsBare("elX")
  /\ getAmpDocIfAvailableLegacy("elX") = singleDoc_
  /\ getAmpDocIfAvailableFie("elX") = Null

\* C5: installShadowDoc on a shadow root that already carries a marker
\* throws, creates no document and leaves every marker as it was; every node
\* that resolved to the marked document before the call still does after.
C5_SecondShadowInstallFails ==
  [][\A sr \in ShadowRoots :
       (ampdocProp[sr] # Null /\ installShadowDoc(sr)) =>
         /\ thrown' = ErrShadowDup
         /\ ampdocProp' = ampdocProp
         /\ docs' = docs
         /\ \A n \in {sr} \cup TreeOf(sr) :
              getAmpDocIfAvailable(n) = ampdocProp[sr] =>
                getAmpDocIfAvailable(n)' = ampdocProp[sr]]_vars

\* C5 witness: a second installShadowDoc on sr1 has just thrown, and sr1 and
\* its element resolve to the document of the first call.
C5_Witness ==
  /\ thrown = ErrShadowDup
  /\ ampdocProp["sr1"] # Null
  /\ docs[ampdocProp["sr1"]].kind = "shadow"
  /\ getAmpDocIfAvailable("sr1") = ampdocProp["sr1"]
  /\ getAmpDocIfAvailable("el1") = ampdocProp["sr1"]

\* C6: a marker, once set, never changes, and every document the service
\* created is the marker of exactly one root node, its own root.
C6_MarkersStableAndOnePerDoc ==
  /\ [](\A d \in DocIds :
          /\ {r \in RootNodes : ampdocProp[r] = d} = {docs[d].root}
          /\ ampdocProp[docs[d].root] = d)
  /\ [](\A r \in RootNodes : ampdocProp[r] \in DocIds \cup {Null})
  /\ [][\A r \in RootNodes :
          ampdocProp[r] # Null => ampdocProp'[r] = ampdocProp[r]]_vars

\* C6 witness: the single doc, a shadow doc and a fie doc exist, and failing
\* installs have been attempted.
C6_Witness ==
  /\ isSingleDoc
  /\ \E d \in DocIds : docs[d].kind = "shadow"
  /\ \E d \in DocIds : docs[d].kind = "fie"
  /\ thrown = ErrFieDup

\* The shadow documents and the fie documents.
ShadowDocs == {d \in DocIds : docs[d].kind = "shadow"}
FieDocs == {d \in DocIds : docs[d].kind = "fie"}

\* C7: for a shadow document, setBody(el) on a document without body makes
\* isBodyAvailable() true, getBody() el and the waitForBodyOpen() promise,
\* the same one as before the call, resolved with el; setBody on a document
\* that has a body throws and leaves the document as it was.  In every state
\* the body is available exactly when the promise is resolved, with the
\* body, and the resolver is then gone.
C7_SetBodyLatch ==
  /\ [](\A d \in ShadowDocs :
          /\ isBodyAvailable(d) <=> waitForBodyOpen(d).state = "resolved"
          /\ ~isBodyAvailable(d) <=> waitForBodyOpen(d).state = "pending"
          /\ isBodyAvailable(d) <=> ~docs[d].bodyResolver_
          /\ waitForBodyOpen(d).value = getBody(d)
          /\ waitForBodyOpen(d).calls = (IF isBodyAvailable(d) THEN 1 ELSE 0))
  /\ [][\A d \in ShadowDocs : \A b \in BodyEls :
          setBody(d, b) =>
            IF isBodyAvailable(d)
              THEN /\ thrown' = ErrDupBody
                   /\ docs' = docs
                   /\ getBody(d)' = getBody(d)
              ELSE /\ thrown' = NoError
                   /\ isBodyAvailable(d)'
                   /\ getBody(d)' = b
                   /\ waitForBodyOpen(d)'.id = waitForBodyOpen(d).id
                   /\ waitForBodyOpen(d)'.state = "resolved"
                   /\ waitForBodyOpen(d)'.value = b]_vars

\* C7 witness: a shadow document has body el1 and a second setBody on it has
\* just thrown.
C7_Witness ==
  /\ thrown = ErrDupBody
  /\ \E d \in ShadowDocs :
       /\ getBody(d) = "el1"
       /\ waitForBodyOpen(d).state = "resolved"
       /\ waitForBodyOpen(d).value = "el1"

\* C8: for a shadow document and for a fie document, isReady() is false and
\* the whenReady() promise pending until setReady(); setReady() makes
\* isReady() true and resolves that same promise; the resolver is called
\* exactly once; setReady() on a ready document throws and changes nothing.
C8_SetReadyLatch ==
  /\ [](\A d \in ShadowDocs \cup FieDocs :
          /\ ~isReady(d) => /\ whenReady(d).state = "pending"
                            /\ whenReady(d).calls = 0
                            /\ docs[d].readyResolver_
          /\ isReady(d) => /\ whenReady(d).state = "resolved"
                           /\ whenReady(d).calls = 1
                           /\ ~docs[d].readyResolver_)
  /\ [][\A d \in DocIds :
          (setReadyShadow(d) \/ setReadyFie(d)) =>
            IF isReady(d)
              THEN /\ thrown' = ErrDupReady
                   /\ docs' = docs
              ELSE /\ thrown' = NoError
                   /\ isReady(d)'
                   /\ whenReady(d)'.id = whenReady(d).id
                   /\ whenReady(d)'.state = "resolved"]_vars
  /\ [][\A d \in DocIds : whenReady(d)'.id = whenReady(d).id]_vars

\* C8 witness: a ready shadow document and a ready fie document, and a
\* second setReady has just thrown.
C8_Witness ==
  /\ thrown = ErrDupReady
  /\ \E d \in ShadowDocs : isReady(d) /\ whenReady(d).state = "resolved"
  /\ \E d \in FieDocs : isReady(d) /\ whenReady(d).state = "resolved"

\* C9: installFieDoc throws, creates no document and writes no marker when
\* the child window's document is already marked, when the child window has
\* no frame element, or when the frame element resolves to no ampdoc; no fie
\* document has a null parent.
C9_InstallFieDocFailsFast ==
  /\ [](\A d \in FieDocs : getParent(d) # Null /\ getParent(d) \in DocIds)
  /\ [][\A w \in Windows :
          (/\ installFieDoc(w)
           /\ \/ ampdocProp[document(w)] # Null
              \/ frameElement(w) = NoNode
              \/ getAmpDocIfAvailable(frameElement(w)) = Null) =>
            /\ thrown' # NoError
            /\ docs' = docs
            /\ ampdocProp' = ampdocProp]_vars

\* C9 witness: not single-doc; a fie document exists whose parent is a shadow
\* document, and an installFieDoc whose frame element has no owner has just
\* thrown.
C9_Witness ==
  /\ ~isSingleDoc
  /\ thrown = ErrNoAmpDoc
  /\ \E d \in FieDocs : getParent(d) \in ShadowDocs

\* C9 witness of the other two failures: an install on a marked document
\* and one on a window without frame element.
C9_WitnessPreconditions ==
  /\ thrown \in {ErrFieDup, ErrAssert}
  /\ FieDocs # {}

\* C10: a fie document's getParent() is what getAmpDoc(frame element)
\* returned when it was installed and never changes; for a frame element in
\* the top document's own tree it is the single doc, in both traversal
\* modes; getParent() of the single doc and of shadow documents is null.
C10_ParentIsOwnerOfFrameElement ==
  /\ [](\A d \in DocIds \ FieDocs : getParent(d) = Null)
  /\ [](\A d \in FieDocsHostedInTopDoc :
          getParent(d) = singleDoc_ /\ singleDoc_ # Null)
  /\ [][\A w \in Windows :
          (installFieDoc(w) /\ thrown' = NoError) =>
            /\ Len(docs') = Len(docs) + 1
            /\ docs'[Len(docs')].kind = "fie"
            /\ docs'[Len(docs')].parent_ = getAmpDoc(frameElement(w)).doc]_vars
  /\ [][\A d \in DocIds : getParent(d)' = getParent(d)]_vars

\* C10 witness: both traversal modes have installed a fie document: one in
\* the top document whose parent is the single doc, one hosted in shadow
\* root sr1 whose parent is sr1's document.
C10_Witness ==
  /\ isSingleDoc
  /\ ampdocProp["doc2"] # Null /\ ampdocProp["sr1"] # Null
  /\ getParent(ampdocProp["doc2"]) = ampdocProp["sr1"]

\* C10 witness for the top document case, legacy traversal.
C10_WitnessTopDoc ==
  /\ ~ampdocFieExperimentOn_
  /\ ampdocProp["doc1"] # Null
  /\ getParent(ampdocProp["doc1"]) = singleDoc_

\* The attached nodes.
AttachedNodes == {n \in Nodes : isConnected(n)}

\* C11: for every attached node getAmpDoc returns the document
\* getAmpDocIfAvailable returns when there is one, and throws the no-ampdoc
\* error exactly when getAmpDocIfAvailable returns null;
\* getAmpDocIfAvailable itself always returns a document or null.  A custom
\* element that asks for its ampdoc gets the error exactly in that case.
C11_GetAmpDocThrowsIffNoneAvailable ==
  /\ [](\A n \in Nodes : getAmpDocIfAvailable(n) \in DocIds \cup {Null})
  /\ [](\A n \in AttachedNodes :
          /\ getAmpDocIfAvailable(n) # Null =>
               getAmpDoc(n) = [err |-> NoError,
                               doc |-> getAmpDocIfAvailable(n)]
          /\ getAmpDocIfAvailable(n) = Null <=>
               getAmpDoc(n).err = ErrNoAmpDoc
          /\ getAmpDoc(n).err \in {NoError, ErrNoAmpDoc})
  /\ [][\A el \in CustomElements :
          cacheAmpDoc(el) =>
            /\ thrown' = ErrNoAmpDoc <=> getAmpDocIfAvailable(el) = Null
            /\ thrown' = NoError => ampdoc_'[el] = getAmpDocIfAvailable(el)
       ]_vars

\* C11 witness: not single-doc; a lookup from an element of the top document
\* has just thrown the no-ampdoc error while an element inside an installed
\* shadow root resolves.
C11_Witness ==
  /\ thrown = ErrNoAmpDoc
  /\ getAmpDocIfAvailable("host1") = Null
  /\ getAmpDoc("host1").err = ErrNoAmpDoc
  /\ getAmpDocIfAvailable("host2") # Null
  /\ getAmpDoc("host2").doc = ampdocProp["sr1"]

\* C12: the mode is fixed by the constructor.  Initially the service is
\* single-doc exactly when it was constructed so (the shadow-roots flag
\* starts as the negation of the constructor argument); isSingleDoc() and
\* singleDoc_ never change; in single-doc mode getSingleDoc() returns the one
\* AmpDocSingle, the first document constructed, and otherwise it throws and
\* no AmpDocSingle exists.
C12_ModeFixedAtConstruction ==
  /\ (isSingleDoc <=> ~mightHaveShadowRoots_)
  /\ [][isSingleDoc' = isSingleDoc /\ singleDoc_' = singleDoc_
        /\ getSingleDoc' = getSingleDoc]_vars
  /\ [](isSingleDoc =>
          /\ getSingleDoc = [err |-> NoError, doc |-> 1]
          /\ docs[1].kind = "single")
  /\ [](~isSingleDoc => getSingleDoc.err = ErrAssert)
  /\ [](\A d \in DocIds : docs[d].kind = "single" => d = singleDoc_)

\* C12 witness: single-doc mode after a shadow and a fie install, a failed
\* install and a mode switch for testing: the shadow-roots flag is on and
\* getSingleDoc() still returns the AmpDocSingle.
C12_Witness ==
  /\ isSingleDoc
  /\ mightHaveShadowRoots_
  /\ NumEmbedded = 2
  /\ \E d \in DocIds : docs[d].kind = "fie"
  /\ getSingleDoc.doc = singleDoc_
  /\ docs[getSingleDoc.doc].kind = "single"

\* The body side and the ready side of a document instance.
BodySide(d) ==
  <<docs[d].body_, docs[d].bodyPromise_, docs[d].bodyResolver_>>
ReadySide(d) ==
  <<docs[d].ready_, docs[d].readyPromise_, docs[d].readyResolver_>>

DueCall ==
  \E d \in DocIds :
    \/ ~isBodyAvailable(d) /\ \E b \in BodyEls : setBody(d, b)
    \/ ~isReady(d) /\ (setReadyShadow(d) \/ setReadyFie(d))

SpecDocsFair == SpecDocs /\ WF_vars(DueCall)

\* Every deferred a constructor has created so far is resolved.
AllDeferredsResolved ==
  /\ \A d \in ShadowDocs : waitForBodyOpen(d).state = "resolved"
  /\ \A d \in ShadowDocs \cup FieDocs : whenReady(d).state = "resolved"

RECURSIVE ParentChainEnds(_, _)
ParentChainEnds(d, seen) ==
  IF d = Null THEN TRUE
  ELSE IF d \in seen \/ d \notin DocIds THEN FALSE
  ELSE ParentChainEnds(getParent(d), seen \cup {d})

\* The number of getParent() steps from d to null.
RECURSIVE ParentDepth(_)
ParentDepth(d) == IF d = Null THEN 0 ELSE 1 + ParentDepth(getParent(d))

\* C15: the getParent() relation is acyclic: from every document the chain
\* of parents reaches null and never revisits a document; a parent is a
\* document that was constructed before its child.
C15_ParentChainAcyclic ==
  \A d \in DocIds :
    /\ ParentChainEnds(d, {})
    /\ getParent(d) # Null => getParent(d) \in DocIds /\ getParent(d) < d

\* C15 witness: a chain of two parents: fie3's document, its parent fie1's
\* document, and the single doc above.
C15_Witness ==
  /\ ampdocProp["doc3"] # Null /\ ampdocProp["doc1"] # Null
  /\ getParent(ampdocProp["doc3"]) = ampdocProp["doc1"]
  /\ getParent(ampdocProp["doc1"]) = singleDoc_
  /\ ParentDepth(ampdocProp["doc3"]) = 3

RECURSIVE NearestMarker(_)
NearestMarker(n) ==
  IF n = NoNode THEN Null
  ELSE IF markerOf(n) # Null THEN markerOf(n)
  ELSE NearestMarker(stepUp(n))

\* C17: in the ampdoc-fie traversal a node with no back-reference on its
\* upward path resolves to the marker of the nearest marked root above it:
\* its own root, else the root of that root's shadow host, else the root of
\* the frame element that embeds it, and so on; null when none is marked.
C17_FieReturnsNearestMarkedRoot ==
  \A n \in Nodes :
    (\A m \in UpPath(n) : ampdocOf(m) = Null) =>
      getAmpDocIfAvailableFie(n) = NearestMarker(n)

\* C17 witness: sr3, a shadow root inside fie1's document, is not marked and
\* fie1's document is: an element of sr3 resolves to fie1's document, not to
\* the single doc that lies beyond the frame element.
C17_Witness ==
  /\ ampdocFieExperimentOn_
  /\ singleDoc_ # Null
  /\ ampdocProp["sr3"] = Null
  /\ ampdocProp["doc1"] # Null
  /\ \A m \in UpPath("el3") : ampdocOf(m) = Null
  /\ getAmpDocIfAvailable("el3") = ampdocProp["doc1"]

\* The loop run iteration by iteration from n: whether it is left without
\* coming to a node a second time, and the result it is left with.
RECURSIVE LoopFie(_, _)
LoopFie(n, seen) ==
  IF n = NoNode THEN [ends |-> TRUE, val |-> Null]
  ELSE IF n \in seen THEN [ends |-> FALSE, val |-> Null]
  ELSE IF stepFie(n).done THEN [ends |-> TRUE, val |-> stepFie(n).val]
  ELSE LoopFie(stepFie(n).next, seen \cup {n})

RECURSIVE LoopLegacy(_, _)
LoopLegacy(n, seen) ==
  IF n = NoNode THEN [ends |-> TRUE, val |-> singleDoc_]
  ELSE IF n \in seen THEN [ends |-> FALSE, val |-> Null]
  ELSE IF stepLegacy(n).done THEN [ends |-> TRUE, val |-> stepLegacy(n).val]
  ELSE LoopLegacy(stepLegacy(n).next, seen \cup {n})

\* C18: in both traversals an iteration that does not leave the loop moves
\* to a node strictly above the current one (or to no node), so the loop
\* never comes to a node twice and ends, with the document or null that
\* getAmpDocIfAvailable returns.
C18_TraversalTerminates ==
  \A n \in Nodes :
    /\ ~stepFie(n).done =>
         stepFie(n).next \in (UpPath(n) \ {n}) \cup {NoNode}
    /\ ~stepLegacy(n).done =>
         stepLegacy(n).next \in (UpPath(n) \ {n}) \cup {NoNode}
    /\ LoopFie(n, {}) = [ends |-> TRUE, val |-> getAmpDocIfAvailableFie(n)]
    /\ LoopLegacy(n, {}) =
         [ends |-> TRUE, val |-> getAmpDocIfAvailableLegacy(n)]

\* C18 witness: no marker on the way up from an element of the nested shadow
\* root sr2 and from an element of the nested frame fie3 until the top
\* document: the loops take several iterations.
C18_Witness ==
  /\ mightHaveShadowRoots_
  /\ \A m \in UpPath("el2") \cup UpPath("elf3") :
       ampdocOf(m) = Null /\ (m # "doc0" => markerOf(m) = Null)
  /\ ~stepFie("el2").done /\ ~stepFie(stepFie("el2").next).done
  /\ ~stepLegacy("el2").done /\ ~stepLegacy("elf3").done
  /\ ~stepFie("elf3").done /\ ~stepFie(stepFie("elf3").next).done
  /\ NumEmbedded >= 1

\* C19: for an attached node of the service's own window, with no
\* back-reference on its upward path (which then crosses no frame
\* boundary), the legacy and the ampdoc-fie traversal return the same,
\* single-doc or not, whatever shadow documents are installed.
C19_TraversalsAgreeWithoutFrames ==
  \A n \in AttachedNodes :
    (/\ defaultView(n) = win
     /\ \A m \in UpPath(n) : ampdocOf(m) = Null) =>
      getAmpDocIfAvailableLegacy(n) = getAmpDocIfAvailableFie(n)

\* C19 witness: single-doc, sr1 marked and the nested sr2 not: an element of
\* sr2 resolves to sr1's document and an element of the top document to the
\* single doc, in both traversals.
C19_Witness ==
  /\ isSingleDoc
  /\ ampdocProp["sr1"] # Null /\ ampdocProp["sr2"] = Null
  /\ \A m \in UpPath("el2") : ampdocOf(m) = Null
  /\ getAmpDocIfAvailableLegacy("el2") = ampdocProp["sr1"]
  /\ getAmpDocIfAvailableFie("el2") = ampdocProp["sr1"]
  /\ getAmpDocIfAvailableLegacy("el0") = singleDoc_
  /\ getAmpDocIfAvailableFie("el0") = singleDoc_

\* C20: the flag mightHaveShadowRoots_ never goes from true to false, and
\* it is true whenever a shadow root carries a marker: the legacy loop's
\* fast path is taken only while no shadow document is installed.
C20_ShadowRootsFlagMonotone ==
  /\ [][mightHaveShadowRoots_ => mightHaveShadowRoots_']_vars
  /\ []((\E sr \in ShadowRoots : ampdocProp[sr] # Null) =>
          mightHaveShadowRoots_)
  /\ [](ShadowDocs # {} => mightHaveShadowRoots_)

\* C20 witness: single-doc mode, where the flag starts false, with a shadow
\* document installed and the flag true.
C20_Witness ==
  /\ isSingleDoc
  /\ ampdocProp["sr1"] # Null
  /\ mightHaveShadowRoots_
  /\ getAmpDocIfAvailableLegacy("el1") = ampdocProp["sr1"]

====
